---- MODULE Spec2Model ----
(***************************************************************************)
(* SignalDataset (src/dataloader.py): time_segments_aggregate,             *)
(* rolling_window_sequences, __init__, __len__ and __getitem__.            *)
(*                                                                         *)
(* Timestamps and intervals are epoch values that may be integers or       *)
(* reals.  They are kept in fixed point: a value v is stored as v * Unit   *)
(* ticks, so the literal 1 of the code is Unit ticks and an integer value  *)
(* is a multiple of Unit.  Matrix rows are numbered from 0 as in the code. *)
(***************************************************************************)
EXTENDS Integers, Sequences, FiniteSets

\* ------------------------------------------------------------- bounds
Unit == 2          \* ticks per 1.0 of the time axis
MaxTick == 5       \* largest timestamp of a table, in ticks
MaxRows == 3       \* largest number of rows of a raw table
MaxInterval == 4   \* largest interval, in ticks
MaxN == 6          \* largest number of rows of a matrix given to the window builder
MaxW == 2          \* largest window_size
MaxT == 2          \* largest target_size
MaxS == 2          \* largest step_size
MaxO == 1          \* largest offset

\* Loops that a non-positive interval or step_size keeps running are cut
\* after this many emitted rows; every terminating loop ends well below.
MaxIter == MaxTick + MaxN + 3

VARIABLES
    entry,          \* the operation that was called: "agg", "roll" or "init"
    pc,             \* position in the called operation
    signal_df,      \* the raw table: timestamp (ticks) of each row, in file order
    interval,       \* interval argument / self.interval, in ticks
    start_ts,       \* time_segments_aggregate: start of the current bucket
    values,         \* time_segments_aggregate: per bucket, the rows aggregated
    index,          \* bucket start times (aggregate's result, builder's input)
    nrows,          \* len(X) of the matrix given to rolling_window_sequences
    window_size, target_size, step_size, target_column, offset,
    drop,           \* [kind |-> "none" | "array" | "scalar", mask |-> row flags]
    drop_windows,
    start,          \* rolling_window_sequences: current window start
    out_X, out_y, X_index, y_index,
    test,           \* self.test
    item            \* outcome of the last __getitem__ call

aggVars == <<signal_df, interval, start_ts, values>>
cfgVars == <<nrows, window_size, target_size, step_size, target_column, offset,
             drop, drop_windows>>
outVars == <<out_X, out_y, X_index, y_index>>
vars == <<entry, pc, signal_df, interval, start_ts, values, index, nrows,
          window_size, target_size, step_size, target_column, offset, drop,
          drop_windows, start, out_X, out_y, X_index, y_index, test, item>>

\* drop is None, an array-like mask (one flag per row), or a scalar marker;
\* for a scalar marker, mask holds, per row of X, whether the row holds it.
None == [kind |-> "none", mask |-> <<>>]
ncols == 1    \* the matrix is univariate: one aggregation method, one value column

\* ------------------------------------------------------- Python helpers
Min2(a, b) == IF a <= b THEN a ELSE b
Max2(a, b) == IF a >= b THEN a ELSE b
SetMax(S) == CHOOSE x \in S : \A y \in S : y <= x

\* A slice bound i of a sequence of length n, as Python clips it.
PyBound(i, n) == IF i < 0 THEN Max2(i + n, 0) ELSE Min2(i, n)
\* The positions (from 0) that seq[a:b] selects in a sequence of length n.
PySlice(n, a, b) ==
    [k \in 1..Max2(PyBound(b, n) - PyBound(a, n), 0) |-> PyBound(a, n) + k - 1]
\* seq[i] raises IndexError unless -n <= i < n; a negative i counts from the end.
PyInRange(i, n) == -n <= i /\ i < n
PyPos(i, n) == IF i < 0 THEN i + n ELSE i

SeqsUpTo(S, n) == UNION {[1..k -> S] : k \in 0..n}

\* ------------------------------------------------ time_segments_aggregate
\* X.sort_values(time_column).set_index(time_column): the rows in time order,
\* each with the position it had in the table.
SortValues(df) ==
    LET Before(a, b) == df[a] < df[b] \/ (df[a] = df[b] /\ a < b)
        Place(r) == Cardinality({q \in DOMAIN df : Before(q, r)}) + 1
    IN  [k \in DOMAIN df |->
            LET r == CHOOSE q \in DOMAIN df : Place(q) = k
            IN  [row |-> r, t |-> df[r]]]

X_sorted == SortValues(signal_df)

\* X.index.values[-1]
max_ts == X_sorted[Len(X_sorted)].t

\* X.loc[a:b]: a label slice of the sorted index, both ends included.
Loc(X, a, b) == {X[i].row : i \in {j \in DOMAIN X : a <= X[j].t /\ X[j].t <= b}}

\* Mutation: the loop stops one bucket early (< for <=).
AggContinueStrict == start_ts < max_ts

\* while start_ts <= max_ts
AggContinue == start_ts <= max_ts

\* end_ts = start_ts + interval
end_ts == start_ts + interval

\* subset = X.loc[start_ts:end_ts - 1]
subset == Loc(X_sorted, start_ts, end_ts - Unit)

AggCall ==
    /\ pc = "agg_call"
    /\ IF signal_df = <<>>
       THEN \* X.index.values[0] of an empty table: IndexError
            /\ pc' = "error"
            /\ UNCHANGED <<start_ts, values, index>>
       ELSE /\ start_ts' = X_sorted[1].t
            /\ values' = <<>>
            /\ index' = <<>>
            /\ pc' = "agg_loop"
    /\ UNCHANGED <<entry, signal_df, interval, cfgVars, start, outVars, test, item>>

AggIter ==
    /\ pc = "agg_loop"
    /\ AggContinue
    /\ Len(index) < MaxIter
    /\ values' = Append(values, subset)
    /\ index' = Append(index, start_ts)
    /\ start_ts' = end_ts
    /\ UNCHANGED <<entry, pc, signal_df, interval, cfgVars, start, outVars, test, item>>

AggReturn ==
    /\ pc = "agg_loop"
    /\ ~AggContinue
    /\ pc' = IF entry = "init" THEN "normalize" ELSE "agg_done"
    /\ UNCHANGED <<entry, aggVars, index, cfgVars, start, outVars, test, item>>

\* ----------------------------------------------- rolling_window_sequences
\* Mutation: the + 1 of max_start is left out.
MaxStartExclusive == nrows - window_size - target_size - offset

\* max_start = len(X) - window_size - target_size - offset + 1
max_start == nrows - window_size - target_size - offset + 1

\* end = start + window_size
end == start + window_size

\* The mask the loop reads: X == None flags nothing.
Mask == IF drop.kind = "none" THEN [i \in 1..nrows |-> FALSE] ELSE drop.mask

\* drop[start:end + target_size]: the positions of the mask that are inspected
DropSpanEnd == end + target_size
drop_window == PySlice(Len(Mask), start, DropSpanEnd)

\* np.where(drop_window)[0]: the flagged places of the slice, from 0
to_drop == {k - 1 : k \in {j \in DOMAIN drop_window : Mask[drop_window[j] + 1]}}

\* Mutation: start is assigned, not advanced (= for +=).
SkipToAbsolute == SetMax(to_drop) + 1

\* Mutation: the skip goes one row too far.
SkipPastNext == start + SetMax(to_drop) + 2

\* start += to_drop[-1] + 1
SkipTo == start + SetMax(to_drop) + 1

\* Mutation: only a mask longer than the matrix is rejected (> for !=).
ShapeMismatchLonger == drop.kind = "array" /\ Len(drop.mask) > nrows

\* len(drop) != len(X), for an array-like drop
ShapeMismatch == drop.kind = "array" /\ Len(drop.mask) # nrows

\* Mutation: the target's index entry ignores the offset.
YIndexPosNoOffset == start + window_size

\* index[end + offset]
YIndexPos == end + offset

RollCall ==
    /\ pc = "roll_call"
    /\ IF ~PyInRange(target_column, ncols)
       THEN \* X[:, target_column]: IndexError
            /\ pc' = "error"
            /\ UNCHANGED <<start, outVars>>
       ELSE IF drop_windows /\ ShapeMismatch
       THEN \* raise Exception('Arrays `drop` and `X` must be of the same length.')
            /\ pc' = "error"
            /\ UNCHANGED <<start, outVars>>
       ELSE /\ start' = 0
            /\ out_X' = <<>>
            /\ out_y' = <<>>
            /\ X_index' = <<>>
            /\ y_index' = <<>>
            /\ pc' = "roll_loop"
    /\ UNCHANGED <<entry, aggVars, index, cfgVars, test, item>>

RollIter ==
    /\ pc = "roll_loop"
    /\ start < max_start
    /\ Len(out_X) < MaxIter
    /\ IF drop_windows /\ to_drop # {}
       THEN /\ start' = SkipTo
            /\ UNCHANGED <<pc, outVars>>
       ELSE IF ~PyInRange(start, Len(index)) \/ ~PyInRange(YIndexPos, Len(index))
       THEN \* index[start] or index[end + offset]: IndexError, nothing is returned
            /\ pc' = "error"
            /\ UNCHANGED <<start, outVars>>
       ELSE /\ out_X' = Append(out_X, PySlice(nrows, start, end))
            /\ out_y' = Append(out_y, PySlice(nrows, end + offset,
                                              end + offset + target_size))
            /\ X_index' = Append(X_index, index[PyPos(start, Len(index)) + 1])
            /\ y_index' = Append(y_index, index[PyPos(YIndexPos, Len(index)) + 1])
            /\ start' = start + step_size
            /\ UNCHANGED pc
    /\ UNCHANGED <<entry, aggVars, index, cfgVars, test, item>>

RollReturn ==
    /\ pc = "roll_loop"
    /\ ~(start < max_start)
    /\ pc' = IF entry = "init" THEN "ready" ELSE "roll_done"
    /\ UNCHANGED <<entry, aggVars, index, cfgVars, start, outVars, test, item>>

\* ------------------------------------------------------- SignalDataset
\* __init__ after aggregation: imputation and scaling keep the matrix's shape,
\* then the windows are built with the reference configuration.
InitWindows ==
    /\ pc = "normalize"
    /\ nrows' = Len(values)
    /\ target_size' = 1
    /\ step_size' = 1
    /\ target_column' = 0
    /\ offset' = 0
    /\ drop' = None
    /\ drop_windows' = FALSE
    /\ pc' = "roll_call"
    /\ UNCHANGED <<entry, aggVars, index, window_size, start, outVars, test, item>>

\* __len__: len(self.X)
DatasetLen == Len(out_X)

\* Mutation: negative positions are rejected instead of counted from the end.
GetItemFailsNegative(idx) == idx < 0 \/ idx >= Len(out_X)

\* self.X[idx] raises IndexError
GetItemFails(idx) == ~PyInRange(idx, Len(out_X))

\* row = self.X[idx]
GetItemRow(idx) == out_X[PyPos(idx, Len(out_X)) + 1]

NoItem == [status |-> "none", idx |-> 0, row |-> <<>>, full |-> FALSE]

GetItem(idx) ==
    /\ pc = "ready"
    /\ item' = IF GetItemFails(idx)
               THEN [status |-> "IndexError", idx |-> idx, row |-> <<>>, full |-> FALSE]
               ELSE [status |-> "ok", idx |-> idx, row |-> GetItemRow(idx), full |-> test]
    /\ UNCHANGED <<entry, pc, aggVars, index, cfgVars, start, outVars, test>>

\* ----------------------------------------------------------------- Init
Tables == SeqsUpTo(0..MaxTick, MaxRows)
Flags(n) == [1..n -> BOOLEAN]

IdleAgg ==
    /\ signal_df = <<>>
    /\ start_ts = 0
    /\ values = <<>>

IdleRoll ==
    /\ start = 0
    /\ out_X = <<>>
    /\ out_y = <<>>
    /\ X_index = <<>>
    /\ y_index = <<>>
    /\ test = FALSE
    /\ item = NoItem

\* A call of time_segments_aggregate on any table with any interval.
InitAgg ==
    /\ entry = "agg"
    /\ pc = "agg_call"
    /\ signal_df \in Tables
    /\ interval \in -1..MaxInterval
    /\ start_ts = 0
    /\ values = <<>>
    /\ index = <<>>
    /\ nrows = 0
    /\ window_size = 1
    /\ target_size = 1
    /\ step_size = 1
    /\ target_column = 0
    /\ offset = 0
    /\ drop = None
    /\ drop_windows = FALSE
    /\ IdleRoll

\* A call of rolling_window_sequences on a matrix of nrows rows whose index is
\* evenly spaced by interval.  Three families of arguments: a valid
\* configuration with any mask of the matrix's length; any configuration,
\* valid or not, without a mask; a mask of any length with the drop policy
\* on or off.
InitRoll ==
    /\ entry = "roll"
    /\ pc = "roll_call"
    /\ nrows \in 0..MaxN
    /\ interval \in 1..2
    /\ index = [i \in 1..nrows |-> 1 + (i - 1) * interval]
    /\ \/ /\ window_size \in 1..MaxW
          /\ target_size \in 1..MaxT
          /\ step_size \in 1..MaxS
          /\ offset \in 0..MaxO
          /\ target_column = 0
          /\ drop_windows = TRUE
          /\ drop \in {None} \cup
                 {[kind |-> k, mask |-> m] : k \in {"array", "scalar"}, m \in Flags(nrows)}
       \/ /\ window_size \in -1..MaxW
          /\ target_size \in -1..MaxT
          /\ step_size \in -1..MaxS
          /\ offset \in 0..MaxO
          /\ target_column \in -2..1
          /\ drop_windows = FALSE
          /\ drop = None
       \/ /\ window_size = 1
          /\ target_size = 1
          /\ step_size = 1
          /\ offset = 0
          /\ target_column = 0
          /\ drop_windows \in BOOLEAN
          /\ drop \in {[kind |-> "array", mask |-> m] : m \in SeqsUpTo(BOOLEAN, MaxN)}
    /\ IdleAgg
    /\ IdleRoll

\* SignalDataset(path, interval, windows_size, test) on a non-empty table.
InitDataset ==
    /\ entry = "init"
    /\ pc = "agg_call"
    /\ signal_df \in Tables \ {<<>>}
    /\ interval \in 1..MaxInterval
    /\ window_size \in 1..MaxW
    /\ test \in BOOLEAN
    /\ start_ts = 0
    /\ values = <<>>
    /\ index = <<>>
    /\ nrows = 0
    /\ target_size = 1
    /\ step_size = 1
    /\ target_column = 0
    /\ offset = 0
    /\ drop = None
    /\ drop_windows = FALSE
    /\ start = 0
    /\ out_X = <<>>
    /\ out_y = <<>>
    /\ X_index = <<>>
    /\ y_index = <<>>
    /\ item = NoItem

Init == InitAgg \/ InitRoll \/ InitDataset

Next ==
    \/ AggCall
    \/ AggIter
    \/ AggReturn
    \/ RollCall
    \/ RollIter
    \/ RollReturn
    \/ InitWindows
    \/ \E idx \in -(MaxIter + 1)..MaxIter : 
          /\ -(DatasetLen + 1) <= idx
          /\ idx <= DatasetLen
          /\ GetItem(idx)

Spec == Init /\ [][Next]_vars

\* ------------------------------------------------------------- claims
SetMin(S) == CHOOSE x \in S : \A y \in S : x <= y
Timestamps == {signal_df[r] : r \in DOMAIN signal_df}
Invalid == {k \in 0..(nrows - 1) : k + 1 \in DOMAIN Mask /\ Mask[k + 1]}
MaskFits == drop.kind = "array" => Len(drop.mask) = nrows
ValidConfig ==
    /\ window_size >= 1
    /\ target_size >= 1
    /\ step_size >= 1
    /\ offset >= 0
    /\ target_column \in 0..(ncols - 1)
Returned == pc \in {"roll_done", "ready"}
Aggregated == pc \in {"agg_done", "normalize", "ready"}
ParallelOutputs ==
    /\ Len(out_y) = Len(out_X)
    /\ Len(X_index) = Len(out_X)
    /\ Len(y_index) = Len(out_X)
\* start of the i-th emitted sample: the first row of its input window
StartOf(i) == out_X[i][1]
Clean(s) == \A k \in s..(s + window_size + target_size - 1) : k \notin Invalid

\* C1 (as claimed): without the drop policy and with step_size = 1, the call
\* returns exactly max(0, n - window_size - target_size - offset) samples.
C1_CountAsClaimed ==
    (Returned /\ ValidConfig /\ ~drop_windows /\ step_size = 1)
        => Len(out_X) = Max2(0, nrows - window_size - target_size - offset)

\* C1 (amended): without the drop policy and with step_size = 1, the call never
\* fails and returns exactly max(0, n - window_size - target_size - offset + 1)
\* samples, the four output arrays having that common length.
C1_SampleCount ==
    (entry # "agg" /\ ValidConfig /\ ~drop_windows /\ step_size = 1)
        => /\ pc # "error"
           /\ Returned =>
                /\ Len(out_X) = Max2(0, nrows - window_size - target_size - offset + 1)
                /\ ParallelOutputs

C1_Witness ==
    /\ entry = "roll"
    /\ Returned /\ ValidConfig /\ ~drop_windows /\ step_size = 1
    /\ offset = 1
    /\ Len(out_X) = 2

\* C2: with the drop policy and exactly one invalid row k, no emitted sample's
\* span [start, start + window_size + target_size) holds k, the emitted starts
\* are strictly increasing, and every loop iteration examines a larger start
\* than the one before, for every step_size >= 1.
C2_Pre == drop_windows /\ MaskFits /\ ValidConfig /\ Cardinality(Invalid) = 1

C2_SingleInvalidRow ==
    /\ [](C2_Pre =>
            /\ \A i \in DOMAIN out_X : Clean(StartOf(i))
            /\ \A i \in DOMAIN out_X : \A j \in DOMAIN out_X :
                    i < j => StartOf(i) < StartOf(j))
    /\ [][(C2_Pre /\ pc = "roll_loop" /\ pc' = "roll_loop") => start' > start]_vars

C2_Witness ==
    /\ C2_Pre /\ Returned
    /\ \E i \in DOMAIN out_X : \A k \in Invalid : StartOf(i) < k
    /\ \E i \in DOMAIN out_X : \A k \in Invalid : StartOf(i) > k

\* C3: every emitted bucket with start s aggregates exactly the rows whose
\* timestamp t satisfies s <= t < s + interval, for integer and real
\* timestamps and intervals alike, so every row is in exactly one bucket.
C3_BucketsHalfOpen ==
    (Aggregated /\ interval > 0)
        => /\ \A i \in DOMAIN index :
                values[i] = {r \in DOMAIN signal_df :
                                index[i] <= signal_df[r]
                                /\ signal_df[r] < index[i] + interval}
           /\ \A r \in DOMAIN signal_df :
                Cardinality({i \in DOMAIN values : r \in values[i]}) = 1

\* C4: for a non-empty table and interval > 0 the aggregation loop runs a
\* bounded number of times and returns as many matrix rows as index entries;
\* index[0] is the minimum timestamp, consecutive entries differ by interval,
\* the last entry is <= the maximum timestamp and the last entry plus interval
\* is beyond it, a bucket without observations having its row like any other.
C4_BucketCount == (SetMax(Timestamps) - SetMin(Timestamps)) \div interval + 1

C4_IndexContiguous ==
    (signal_df # <<>> /\ interval > 0 /\ pc \notin {"agg_call", "error"})
        => /\ Len(values) = Len(index)
           /\ Len(index) <= C4_BucketCount
           /\ \A i \in DOMAIN index :
                index[i] = SetMin(Timestamps) + (i - 1) * interval
           /\ pc = "agg_loop" =>
                start_ts = SetMin(Timestamps) + Len(index) * interval
           /\ Aggregated =>
                /\ Len(index) = C4_BucketCount
                /\ index[1] = SetMin(Timestamps)
                /\ index[Len(index)] <= SetMax(Timestamps)
                /\ index[Len(index)] + interval > SetMax(Timestamps)

C4_Witness ==
    /\ pc = "agg_done"
    /\ interval > 0
    /\ Len(index) >= 3
    /\ \E i \in DOMAIN index :
          /\ 1 < i /\ i < Len(index)
          /\ values[i] = {}
          /\ \A r \in DOMAIN signal_df :
                signal_df[r] < index[i] \/ signal_df[r] >= index[i] + interval

\* C5: an invalid configuration fails at call time without output: with
\* interval <= 0 the aggregation never enters its loop, and with window_size,
\* target_size or step_size <= 0, or target_column out of range, the window
\* builder never enters its loop, emits nothing and does not return.
C5_InvalidConfigFailsFast ==
    /\ (entry = "agg" /\ interval <= 0) => pc \in {"agg_call", "error"}
    /\ (entry = "roll" /\ (\/ window_size <= 0
                           \/ target_size <= 0
                           \/ step_size <= 0
                           \/ ~PyInRange(target_column, ncols)))
          => (pc \in {"roll_call", "error"} /\ out_X = <<>>)

\* C6 (as claimed): __len__ is the number of samples built, and __getitem__
\* fails for every idx outside [0, length), negative ones included, and
\* returns sample idx inside.
C6_Length ==
    pc = "ready" => (DatasetLen = Max2(0, nrows - window_size) /\ ParallelOutputs)

C6_GetItemAsClaimed ==
    /\ C6_Length
    /\ (pc = "ready" /\ item.status # "none")
          => IF item.idx \in 0..(DatasetLen - 1)
             THEN item.status = "ok" /\ item.row = out_X[item.idx + 1]
             ELSE item.status = "IndexError"

\* C6 (amended): __len__ is the number of samples built; __getitem__ fails
\* for every idx outside [-length, length), returns sample idx for idx in
\* [0, length) and sample length + idx for idx in [-length, 0).
C6_GetItem ==
    /\ C6_Length
    /\ (pc = "ready" /\ item.status # "none")
          => IF item.idx \in 0..(DatasetLen - 1)
             THEN item.status = "ok" /\ item.row = out_X[item.idx + 1]
             ELSE IF item.idx \in (-DatasetLen)..(-1)
             THEN item.status = "ok" /\ item.row = out_X[DatasetLen + item.idx + 1]
             ELSE item.status = "IndexError"

C6_Witness ==
    /\ pc = "ready"
    /\ DatasetLen >= 2
    /\ item.status = "ok"
    /\ item.idx = -1
    /\ item.row = out_X[DatasetLen]

\* C7: with the drop policy, for every offset >= 0, no emitted sample has an
\* invalid row among its input rows or among its target rows.
C7_NoSampleTouchesInvalid ==
    (drop_windows /\ MaskFits /\ ValidConfig)
        => \A i \in DOMAIN out_X :
              /\ \A k \in DOMAIN out_X[i] : out_X[i][k] \notin Invalid
              /\ \A k \in DOMAIN out_y[i] : out_y[i][k] \notin Invalid

\* C8: over an index evenly spaced by interval, every emitted sample has
\* y_index = X_index + (window_size + offset) * interval, hence
\* X_index < y_index, with and without the drop policy, for every step_size.
C8_IndexAlignment ==
    (ValidConfig /\ MaskFits /\ interval > 0)
        => /\ Len(y_index) = Len(X_index)
           /\ \A i \in DOMAIN X_index :
                /\ y_index[i] = X_index[i] + (window_size + offset) * interval
                /\ X_index[i] < y_index[i]

C8_Witness ==
    /\ entry = "roll" /\ Returned /\ ValidConfig
    /\ drop_windows /\ Invalid # {}
    /\ offset = 1 /\ step_size = 2 /\ interval = 2
    /\ Len(X_index) >= 1

\* C9 (as claimed): an array-like mask whose length differs from the row count
\* makes the call fail before any window is emitted.
C9_MismatchAsClaimed ==
    (entry = "roll" /\ drop.kind = "array" /\ Len(drop.mask) # nrows)
        => (pc \in {"roll_call", "error"} /\ out_X = <<>>)

\* C9 (amended): with drop_windows=True, an array-like mask whose length
\* differs from the row count makes the call fail before any window is
\* emitted; no output is returned.
C9_ShapeMismatch ==
    (entry = "roll" /\ drop_windows /\ drop.kind = "array" /\ Len(drop.mask) # nrows)
        => (pc \in {"roll_call", "error"} /\ out_X = <<>> /\ ParallelOutputs)

C9_Witness ==
    /\ entry = "roll" /\ drop_windows
    /\ drop.kind = "array" /\ Len(drop.mask) < nrows
    /\ nrows >= 2
    /\ pc = "error"

\* C10: with the drop policy and step_size = 1 the emitted starts are, in
\* increasing order, exactly the s in 0..n - window_size - target_size - offset
\* whose span [s, s + window_size + target_size) holds no invalid row.
C10_SkipLosesNothing ==
    (Returned /\ drop_windows /\ MaskFits /\ ValidConfig /\ step_size = 1)
        => /\ {StartOf(i) : i \in DOMAIN out_X}
                = {s \in 0..(nrows - window_size - target_size - offset) : Clean(s)}
           /\ \A i \in DOMAIN out_X : \A j \in DOMAIN out_X :
                i < j => StartOf(i) < StartOf(j)

C10_Witness ==
    /\ Returned /\ drop_windows /\ MaskFits /\ ValidConfig /\ step_size = 1
    /\ Cardinality(Invalid) >= 2
    /\ Len(out_X) >= 2
    /\ \E i \in DOMAIN out_X : i > 1 /\ StartOf(i) > StartOf(i - 1) + 2

====
